---------------------------- MODULE Spec2Model ----------------------------
(***************************************************************************)
(* Model of app.py of El-Cedro-Balance: the inventory panel that reads     *)
(* Balance.csv and, for a chosen origin warehouse and a chosen list of     *)
(* destination warehouses, shows the KPI cards, the article browser, the   *)
(* transfer suggestions, the reverse suggestions and the C / Sin mov base  *)
(* listing.  The script is rerun from top to bottom after every widget     *)
(* change; one action of the model is one widget change plus that rerun.   *)
(*                                                                         *)
(* Text is a sequence of one-character strings, so that strip(), lower()   *)
(* and the substring test are computed and not assumed.  A missing cell    *)
(* (pandas NaN) is the one-element sequence <<"NaN">>.  A Clave is         *)
(* represented by its rank in Python's string order.                       *)
(*                                                                         *)
(* app.py is the uncapped variant of the panel.  The capped forward        *)
(* report of the other variant is modelled from section 4.4 (b) of the     *)
(* specification and runs under SpecCapado.                                *)
(***************************************************************************)
EXTENDS Integers, Sequences, FiniteSets, TLC

(* ------------------------------ bounds -------------------------------- *)

\* most rows of a Balance.csv of the plain family of input tables
MaxRows == 2

\* largest existencia of a cell (the smallest is -1)
MaxQty == 2

\* stands for view_limit = 500 (src/app.py:829, 892, 970), scaled down so
\* that a result longer than the limit exists within MaxRows
view_limit == 2

\* the largest threshold of the capped policy (the slider goes to 100)
MaxUmbral == 2

\* rows the capped report keeps (stands for its top 50)
top_capado == 3

(* ------------------------------- text --------------------------------- *)

NaN == <<"NaN">>

\* code points of the characters that occur in the model's cells
CharCode ==
    [c \in {" ", "A", "B", "C", "M", "S", "a", "b", "c", "i", "m", "n", "o", "s", "v"} |->
        CASE c = " " -> 32 [] c = "A" -> 65 [] c = "B" -> 66 [] c = "C" -> 67
          [] c = "M" -> 77 [] c = "S" -> 83 [] c = "a" -> 97 [] c = "b" -> 98
          [] c = "c" -> 99 [] c = "i" -> 105 [] c = "m" -> 109 [] c = "n" -> 110
          [] c = "o" -> 111 [] c = "s" -> 115 [] c = "v" -> 118]

\* str.lower() of one character
LowerChar(c) ==
    CASE c = "A" -> "a" [] c = "B" -> "b" [] c = "C" -> "c"
      [] c = "M" -> "m" [] c = "S" -> "s" [] OTHER -> c

\* str.lower()
Lower(s) == [i \in 1..Len(s) |-> LowerChar(s[i])]

RECURSIVE LStrip(_)
LStrip(s) == IF s # <<>> /\ Head(s) = " " THEN LStrip(Tail(s)) ELSE s

RECURSIVE RStrip(_)
RStrip(s) ==
    IF s # <<>> /\ s[Len(s)] = " " THEN RStrip(SubSeq(s, 1, Len(s) - 1)) ELSE s

\* str.strip()
Strip(s) == RStrip(LStrip(s))

\* the Python test  sub in s
Contains(s, sub) ==
    \E i \in 1..(Len(s) - Len(sub) + 1) : SubSeq(s, i, i + Len(sub) - 1) = sub

\* Python's  s < t  on str: the first differing code point decides
RECURSIVE StrLess(_, _)
StrLess(s, t) ==
    IF t = <<>> THEN FALSE
    ELSE IF s = <<>> THEN TRUE
    ELSE IF Head(s) # Head(t) THEN CharCode[Head(s)] < CharCode[Head(t)]
    ELSE StrLess(Tail(s), Tail(t))

\* str(x) of a classification cell: NaN prints as "nan"
Str(x) == IF x = NaN THEN <<"n", "a", "n">> ELSE x

\* .astype(str).str.strip() and str(...).strip()
StrStrip(x) == Strip(Str(x))

\* .fillna("").astype(str).str.strip()
FillnaStrStrip(x) == IF x = NaN THEN <<>> ELSE Strip(x)

sin == <<"s", "i", "n">>

\* clas in ["A", "B"]
IsAB(clas) == clas \in {<<"A">>, <<"B">>}

\* clas == "C" or "sin" in clas.lower()
IsCOrSin(clas) == clas = <<"C">> \/ Contains(Lower(clas), sin)

(* ------------------------------ schema -------------------------------- *)

\* inv_cols of load_balance: the warehouse columns, sorted
inv_cols == <<"Adelitas", "Berriozabal", "Matriz">>

warehouses == inv_cols

Almacenes == {inv_cols[i] : i \in 1..Len(inv_cols)}

\* value of class_cols[inv] for a warehouse without a ".1" column
None == <<>>

\* name of the classification column of warehouse inv
ClsName(inv) == <<inv, ".1">>

SeqToSet(s) == {s[i] : i \in 1..Len(s)}


(* ----------------------- functions of app.py -------------------------- *)

\* pd.to_numeric(col, errors="coerce").fillna(0).astype(int) of a cell that
\* load_balance has already made an int: the value itself
ToInt(x) == x

\* df[mask]["Clave"].nunique() for the rows of df that satisfy a mask, given
\* as the set of their positions
Nunique(df, idx) == Cardinality({df[i].Clave : i \in idx})

\* get_origin_df: the base columns and the two columns of one warehouse,
\* renamed Existencia and Clasificacion
get_origin_df(d, inv_col, class_col) ==
    \* class_col is the column ClsName(inv_col); the row keeps it under inv_col
    [i \in 1..Len(d) |->
        [Codigo |-> d[i].Codigo, Clave |-> d[i].Clave,
         Descripcion |-> d[i].Descripcion,
         Existencia |-> d[i].inv[inv_col],
         Clasificacion |-> d[i].cls[inv_col]]]

\* mask_C taking the no-movement rows too
mask_C_o_sin(df) ==
    {i \in 1..Len(df) :
        IsCOrSin(FillnaStrStrip(df[i].Clasificacion))}

\* the masks of compute_kpis, as sets of row positions of the normalised df
mask_A(df) == {i \in 1..Len(df) : FillnaStrStrip(df[i].Clasificacion) = <<"A">>}

mask_B(df) == {i \in 1..Len(df) : FillnaStrStrip(df[i].Clasificacion) = <<"B">>}

mask_C(df) == {i \in 1..Len(df) : FillnaStrStrip(df[i].Clasificacion) = <<"C">>}

mask_sin(df) ==
    {i \in 1..Len(df) : Contains(Lower(FillnaStrStrip(df[i].Clasificacion)), sin)}

\* mask_sin_pos without the existencia test
mask_sin_todas(df) == mask_sin(df)

mask_sin_pos(df) == {i \in mask_sin(df) : ToInt(df[i].Existencia) > 0}

\* pct without the test for skus_activos == 0
pct_sin_guarda(v, skus_activos) == <<v, skus_activos>>

\* v / skus_activos as the fraction <<numerator, denominator>>; 0.0 is <<0, 1>>
pct(v, skus_activos) == IF skus_activos = 0 THEN <<0, 1>> ELSE <<v, skus_activos>>

\* the dictionary compute_kpis returns, from its local variables
KpiDict(skus_totales, conteo_A, conteo_B, conteo_C, conteo_sinmov, bajos_ab) ==
    LET skus_activos == conteo_A + conteo_B + conteo_C + conteo_sinmov
    IN  [skus_totales |-> skus_totales,
         skus_activos |-> skus_activos,
         bajos_ab |-> bajos_ab,
         A |-> conteo_A,
         B |-> conteo_B,
         C |-> conteo_C,
         SinMov |-> conteo_sinmov,
         pct_A |-> pct(conteo_A, skus_activos),
         pct_B |-> pct(conteo_B, skus_activos),
         pct_C |-> pct(conteo_C, skus_activos),
         pct_SinMov |-> pct(conteo_sinmov, skus_activos)]

\* compute_kpis; each local variable is bound once, to its value
compute_kpis(df_origin) ==
    CHOOSE k \in
        {KpiDict(skus_totales, conteo_A, conteo_B, conteo_C, conteo_sinmov, bajos_ab) :
            skus_totales \in {Nunique(df_origin, 1..Len(df_origin))},
            conteo_A \in {Nunique(df_origin, mask_A(df_origin))},
            conteo_B \in {Nunique(df_origin, mask_B(df_origin))},
            conteo_C \in {Nunique(df_origin, mask_C(df_origin))},
            conteo_sinmov \in {Nunique(df_origin, mask_sin_pos(df_origin))},
            bajos_ab \in
                {Nunique(df_origin,
                         {i \in mask_A(df_origin) \cup mask_B(df_origin) :
                             ToInt(df_origin[i].Existencia) = 0})}} : TRUE

\* one record of registros
Registro(row, origin_inv_col, dest_inv_col) ==
    [Codigo |-> row.Codigo,
     Clave |-> row.Clave,
     Descripcion |-> row.Descripcion,
     AlmacenOrigen |-> origin_inv_col,
     ExistenciaOrigen |-> ToInt(row.inv[origin_inv_col]),
     ClasifOrigen |-> StrStrip(row.cls[origin_inv_col]),
     AlmacenDestino |-> dest_inv_col,
     ExistenciaDestino |-> row.inv[dest_inv_col],
     ClasifDestino |-> StrStrip(row.cls[dest_inv_col])]

\* the inner loop of build_suggestions without its classification test
DestinoValido_sin_clase(row, dest_inv_col) == ~(row.inv[dest_inv_col] <= 0)

\* the two  continue  tests of the inner loop of build_suggestions
DestinoValido(row, dest_inv_col) ==
    LET exist_d == row.inv[dest_inv_col]
        clas_d == StrStrip(row.cls[dest_inv_col])
    IN  ~(exist_d <= 0) /\ (clas_d = <<"C">> \/ Contains(Lower(clas_d), sin))

\* the inner loop of build_suggestions leaving at the first valid destination
RECURSIVE RegistrosDeFila_primero(_, _, _)
RegistrosDeFila_primero(row, origin_inv_col, dests) ==
    IF dests = <<>> THEN <<>>
    ELSE IF DestinoValido(row, Head(dests))
           THEN <<Registro(row, origin_inv_col, Head(dests))>>
           ELSE RegistrosDeFila_primero(row, origin_inv_col, Tail(dests))

\* the inner loop of build_suggestions over dest_inv_cols, for one row
RECURSIVE RegistrosDeFila(_, _, _)
RegistrosDeFila(row, origin_inv_col, dests) ==
    IF dests = <<>> THEN <<>>
    ELSE (IF DestinoValido(row, Head(dests))
            THEN <<Registro(row, origin_inv_col, Head(dests))>>
            ELSE <<>>)
         \o RegistrosDeFila(row, origin_inv_col, Tail(dests))

\* the outer loop of build_suggestions over the filtered rows
RECURSIVE Registros(_, _, _)
Registros(filas, origin_inv_col, dests) ==
    IF filas = <<>> THEN <<>>
    ELSE RegistrosDeFila(Head(filas), origin_inv_col, dests)
         \o Registros(Tail(filas), origin_inv_col, dests)

\* the sort of build_suggestions with ascending=[False, False]
SortSug_desc(df) ==
    LET n == Len(df)
        Before(a, b) ==
            \/ a.ExistenciaDestino > b.ExistenciaDestino
            \/ a.ExistenciaDestino = b.ExistenciaDestino /\ a.Clave > b.Clave
        pos == [i \in 1..n |->
                  1 + Cardinality({j \in 1..n :
                        Before(df[j], df[i]) \/ (~Before(df[i], df[j]) /\ j < i)})]
    IN  [k \in 1..n |-> df[CHOOSE i \in 1..n : pos[i] = k]]

\* df.sort_values(by=["Existencia destino", "Clave"], ascending=[False, True]):
\* a stable sort, so rows equal on both keys keep their order
SortSug(df) ==
    LET n == Len(df)
        Before(a, b) ==
            \/ a.ExistenciaDestino > b.ExistenciaDestino
            \/ a.ExistenciaDestino = b.ExistenciaDestino /\ a.Clave < b.Clave
    IN  CHOOSE sorted \in
            {[k \in 1..n |-> df[CHOOSE i \in 1..n : pos[i] = k]] :
                pos \in {[i \in 1..n |->
                            1 + Cardinality({j \in 1..n :
                                  Before(df[j], df[i])
                                  \/ (~Before(df[i], df[j]) /\ j < i)})]}} : TRUE

\* build_suggestions with the origin filter also asking for existencia > 0
build_suggestions_exist(d, inv, cc, origin_inv_col, dest_inv_cols, umbral_bajos_ab) ==
    LET data_filtrada ==
            SelectSeq(d, LAMBDA row : IsAB(StrStrip(row.cls[origin_inv_col]))
                                      /\ ToInt(row.inv[origin_inv_col]) > 0)
        registros == Registros(data_filtrada, origin_inv_col, dest_inv_cols)
    IN  IF registros = <<>> THEN <<>> ELSE SortSug(registros)

\* build_suggestions, where cc (class_cols) names a column for the origin
\* and for every destination; inv and umbral_bajos_ab are not read
build_suggestions(d, inv, cc, origin_inv_col, dest_inv_cols, umbral_bajos_ab) ==
    LET data_filtrada ==
            SelectSeq(d, LAMBDA row : IsAB(StrStrip(row.cls[origin_inv_col])))
    IN  CHOOSE df_sug \in
            {IF registros = <<>> THEN <<>> ELSE SortSug(registros) :
                registros \in {Registros(data_filtrada, origin_inv_col,
                                         dest_inv_cols)}} : TRUE


\* the destination test of build_reverse_suggestions also asking for stock
DestinoAB_exist(row, dest_inv_col) ==
    LET exist_d == row.inv[dest_inv_col]
        clas_d == StrStrip(row.cls[dest_inv_col])
    IN  ~(exist_d <= 0) /\ ~(clas_d \notin {<<"A">>, <<"B">>})

\* the destination test of the inner loop of build_reverse_suggestions
DestinoAB(row, dest_inv_col) ==
    LET clas_d == StrStrip(row.cls[dest_inv_col])
    IN  ~(clas_d \notin {<<"A">>, <<"B">>})

RECURSIVE RegistrosInvDeFila(_, _, _)
RegistrosInvDeFila(row, origin_inv_col, dests) ==
    IF dests = <<>> THEN <<>>
    ELSE (IF DestinoAB(row, Head(dests))
            THEN <<Registro(row, origin_inv_col, Head(dests))>>
            ELSE <<>>)
         \o RegistrosInvDeFila(row, origin_inv_col, Tail(dests))

RECURSIVE RegistrosInv(_, _, _)
RegistrosInv(filas, origin_inv_col, dests) ==
    IF filas = <<>> THEN <<>>
    ELSE RegistrosInvDeFila(Head(filas), origin_inv_col, dests)
         \o RegistrosInv(Tail(filas), origin_inv_col, dests)

\* df.sort_values(by=["Existencia origen", "Clave"], ascending=[False, True])
SortInv(df) ==
    LET n == Len(df)
        Before(a, b) ==
            \/ a.ExistenciaOrigen > b.ExistenciaOrigen
            \/ a.ExistenciaOrigen = b.ExistenciaOrigen /\ a.Clave < b.Clave
    IN  CHOOSE sorted \in
            {[k \in 1..n |-> df[CHOOSE i \in 1..n : pos[i] = k]] :
                pos \in {[i \in 1..n |->
                            1 + Cardinality({j \in 1..n :
                                  Before(df[j], df[i])
                                  \/ (~Before(df[i], df[j]) /\ j < i)})]}} : TRUE

\* the origin filter without its existencia > 0 test
OrigenCSinPos_todas(row, origin_inv_col) ==
    LET clas_o == StrStrip(row.cls[origin_inv_col])
        m_c == clas_o = <<"C">>
        m_sin == Contains(Lower(clas_o), sin)
    IN  m_c \/ m_sin

\* the origin filter shared by build_reverse_suggestions and
\* get_base_c_sinmov: existencia > 0 and (C or contains "sin")
OrigenCSinPos(row, origin_inv_col) ==
    LET exist_o == ToInt(row.inv[origin_inv_col])
        clas_o == StrStrip(row.cls[origin_inv_col])
        m_c == clas_o = <<"C">>
        m_sin == Contains(Lower(clas_o), sin)
    IN  (exist_o > 0) /\ (m_c \/ m_sin)

\* build_reverse_suggestions without the existencia > 0 test on the origin
build_reverse_suggestions_todas(d, inv, cc, origin_inv_col, dest_inv_cols, umbral_bajos_ab) ==
    LET data_filtrada ==
            SelectSeq(d, LAMBDA row : OrigenCSinPos_todas(row, origin_inv_col))
        registros == RegistrosInv(data_filtrada, origin_inv_col, dest_inv_cols)
    IN  IF registros = <<>> THEN <<>> ELSE SortInv(registros)

build_reverse_suggestions(d, inv, cc, origin_inv_col, dest_inv_cols, umbral_bajos_ab) ==
    LET data_filtrada == SelectSeq(d, LAMBDA row : OrigenCSinPos(row, origin_inv_col))
    IN  CHOOSE df_sug \in
            {IF registros = <<>> THEN <<>> ELSE SortInv(registros) :
                registros \in {RegistrosInv(data_filtrada, origin_inv_col,
                                            dest_inv_cols)}} : TRUE

\* df.sort_values(by=["Clasif_origen", "Clave"])
SortBase(df) ==
    LET n == Len(df)
        Before(a, b) ==
            \/ StrLess(a.Clasif_origen, b.Clasif_origen)
            \/ a.Clasif_origen = b.Clasif_origen /\ a.Clave < b.Clave
    IN  CHOOSE sorted \in
            {[k \in 1..n |-> df[CHOOSE i \in 1..n : pos[i] = k]] :
                pos \in {[i \in 1..n |->
                            1 + Cardinality({j \in 1..n :
                                  Before(df[j], df[i])
                                  \/ (~Before(df[i], df[j]) /\ j < i)})]}} : TRUE

get_base_c_sinmov(d, origin_inv_col, cc) ==
    LET df == SelectSeq(d, LAMBDA row : OrigenCSinPos(row, origin_inv_col))
        cols == [i \in 1..Len(df) |->
                    [Codigo |-> df[i].Codigo,
                     Clave |-> df[i].Clave,
                     Descripcion |-> df[i].Descripcion,
                     Existencia_origen |-> ToInt(df[i].inv[origin_inv_col]),
                     Clasif_origen |-> StrStrip(df[i].cls[origin_inv_col])]]
    IN  SortBase(cols)

\* the colours of style_class_colors
verde == "#1b8a3a"

azul == "#1e88e5"

naranja == "#fb8c00"

rojo == "#c62828"

SinColor == "None"

\* the if / elif chain of the buscador branch of _apply_row
color_buscador(clas, exist) ==
    IF clas \in {<<"A">>, <<"B">>} /\ exist > 0 THEN verde
    ELSE IF clas \in {<<"A">>, <<"B">>} /\ exist = 0 THEN azul
    ELSE IF clas = <<"C">> /\ exist > 0 THEN naranja
    ELSE IF Contains(Lower(clas), sin) /\ exist > 0 THEN rojo
    ELSE SinColor

\* color_from_cls taking every existencia <= 0 of an A/B row as out of stock
color_from_cls_neg(clas, exist) ==
    IF clas \in {<<"A">>, <<"B">>} /\ exist > 0 THEN verde
    ELSE IF clas \in {<<"A">>, <<"B">>} /\ exist <= 0 THEN azul
    ELSE IF clas = <<"C">> /\ exist > 0 THEN naranja
    ELSE IF Contains(Lower(clas), sin) /\ exist > 0 THEN rojo
    ELSE SinColor

\* color_from_cls of the suggestion branch of _apply_row
color_from_cls(clas, exist) ==
    IF clas \in {<<"A">>, <<"B">>} /\ exist > 0 THEN verde
    ELSE IF clas \in {<<"A">>, <<"B">>} /\ exist = 0 THEN azul
    ELSE IF clas = <<"C">> /\ exist > 0 THEN naranja
    ELSE IF Contains(Lower(clas), sin) /\ exist > 0 THEN rojo
    ELSE SinColor

\* df.head(n)
head(df, n) == SubSeq(df, 1, IF Len(df) < n THEN Len(df) ELSE n)


\* styles of _apply_row for one row of a suggestion table: the colour of
\* the three origin columns and the colour of the three destination columns
EstiloSug(row) ==
    [origen |-> color_from_cls(Strip(Str(row.ClasifOrigen)), row.ExistenciaOrigen),
     destino |-> color_from_cls(Strip(Str(row.ClasifDestino)), row.ExistenciaDestino)]

\* styles of _apply_row for one row of the buscador table: per warehouse,
\* the colour of its existencia and classification columns
EstiloBuscar(row, cc) ==
    [w \in Almacenes |->
        IF cc[w] = None THEN SinColor
        ELSE color_buscador(StrStrip(row.cls[w]), row.inv[w])]

\* style_class_colors(df): _apply_row on every row of a suggestion table
style_class_colors(df) == [i \in 1..Len(df) |-> EstiloSug(df[i])]

\* style_class_colors(df, pairs_for_buscar)
style_class_colors_buscar(df, cc) == [i \in 1..Len(df) |-> EstiloBuscar(df[i], cc)]

\* to_csv of the rows on screen only
to_csv_sug_vista(df) ==
    <<  <<"Codigo", "Clave", "Descripcion", "Almacen origen", "Existencia origen",
          "Clasif. origen", "Almacen destino", "Existencia destino",
          "Clasif. destino">>  >>
    \o [i \in 1..Len(head(df, view_limit)) |->
          <<df[i].Codigo, df[i].Clave, df[i].Descripcion, df[i].AlmacenOrigen,
            df[i].ExistenciaOrigen, df[i].ClasifOrigen, df[i].AlmacenDestino,
            df[i].ExistenciaDestino, df[i].ClasifDestino>>]

\* df_sug.to_csv(index=False): the header line, then one line per row, the
\* values in column order
to_csv_sug(df) ==
    <<  <<"Codigo", "Clave", "Descripcion", "Almacen origen", "Existencia origen",
          "Clasif. origen", "Almacen destino", "Existencia destino",
          "Clasif. destino">>  >>
    \o [i \in 1..Len(df) |->
          <<df[i].Codigo, df[i].Clave, df[i].Descripcion, df[i].AlmacenOrigen,
            df[i].ExistenciaOrigen, df[i].ClasifOrigen, df[i].AlmacenDestino,
            df[i].ExistenciaDestino, df[i].ClasifDestino>>]

\* df_base_cs.to_csv(index=False)
to_csv_base(df) ==
    <<  <<"Codigo", "Clave", "Descripcion", "Existencia_origen", "Clasif_origen">>  >>
    \o [i \in 1..Len(df) |->
          <<df[i].Codigo, df[i].Clave, df[i].Descripcion,
            df[i].Existencia_origen, df[i].Clasif_origen>>]

\* no download button is offered
NoCsv == <<>>

(* ------------- the capped forward report, section 4.4 (b) ------------- *)

\* shortfall = max(0, threshold - origin quantity)
faltante(umbral_bajos_ab, exist_o) ==
    IF umbral_bajos_ab - exist_o > 0 THEN umbral_bajos_ab - exist_o ELSE 0

\* suggested = min(destination quantity, shortfall)
sugerido(exist_d, falta) == IF exist_d < falta THEN exist_d ELSE falta

\* the rows of one record: none when the shortfall is 0; one per destination
\* with quantity > 0 and classification C or no-movement whose suggested
\* quantity is > 0
RECURSIVE RegistrosCapadosDeFila(_, _, _, _)
RegistrosCapadosDeFila(row, origin_inv_col, dests, falta) ==
    IF dests = <<>> \/ falta = 0 THEN <<>>
    ELSE (IF DestinoValido(row, Head(dests))
             /\ ~(sugerido(row.inv[Head(dests)], falta) <= 0)
            THEN << [reg |-> Registro(row, origin_inv_col, Head(dests)),
                     Sugerido |-> sugerido(row.inv[Head(dests)], falta)] >>
            ELSE <<>>)
         \o RegistrosCapadosDeFila(row, origin_inv_col, Tail(dests), falta)

\* the rows with the destination quantity as suggested quantity, whatever
\* the shortfall
RECURSIVE RegistrosCapados_sin_faltante(_, _, _, _)
RegistrosCapados_sin_faltante(filas, origin_inv_col, dests, umbral_bajos_ab) ==
    IF filas = <<>> THEN <<>>
    ELSE [j \in 1..Len(RegistrosDeFila(Head(filas), origin_inv_col, dests)) |->
            [reg |-> RegistrosDeFila(Head(filas), origin_inv_col, dests)[j],
             Sugerido |-> RegistrosDeFila(Head(filas), origin_inv_col,
                                          dests)[j].ExistenciaDestino]]
         \o RegistrosCapados_sin_faltante(Tail(filas), origin_inv_col, dests,
                                          umbral_bajos_ab)

RECURSIVE RegistrosCapados(_, _, _, _)
RegistrosCapados(filas, origin_inv_col, dests, umbral_bajos_ab) ==
    IF filas = <<>> THEN <<>>
    ELSE RegistrosCapadosDeFila(
             Head(filas), origin_inv_col, dests,
             faltante(umbral_bajos_ab, ToInt(Head(filas).inv[origin_inv_col])))
         \o RegistrosCapados(Tail(filas), origin_inv_col, dests, umbral_bajos_ab)

\* output sort: suggested descending, then Key ascending
SortCapado(df) ==
    LET n == Len(df)
        Before(a, b) ==
            \/ a.Sugerido > b.Sugerido
            \/ a.Sugerido = b.Sugerido /\ a.reg.Clave < b.reg.Clave
    IN  CHOOSE sorted \in
            {[k \in 1..n |-> df[CHOOSE i \in 1..n : pos[i] = k]] :
                pos \in {[i \in 1..n |->
                            1 + Cardinality({j \in 1..n :
                                  Before(df[j], df[i])
                                  \/ (~Before(df[i], df[j]) /\ j < i)})]}} : TRUE

\* origin filter A or B, the rows, the sort, the top rows
build_suggestions_capado(d, inv, cc, origin_inv_col, dest_inv_cols, umbral_bajos_ab) ==
    LET data_filtrada ==
            SelectSeq(d, LAMBDA row : IsAB(StrStrip(row.cls[origin_inv_col])))
        registros == RegistrosCapados(data_filtrada, origin_inv_col, dest_inv_cols,
                                      umbral_bajos_ab)
    IN  CHOOSE df_sug \in
            {head(SortCapado(r), top_capado) : r \in {registros}} : TRUE

SinTabCapado == [msg |-> "", df_sug |-> <<>>]

\* the capped report of one run: an empty origin or destination set gives
\* an informational empty result
script_capado(d, cc, origen, destinos, umbral_bajos_ab) ==
    IF origen = "Todos" THEN [SinTabCapado EXCEPT !.msg = "info_origen"]
    ELSE IF destinos = <<>> THEN [SinTabCapado EXCEPT !.msg = "info_destinos"]
    ELSE LET df_sug == build_suggestions_capado(d, inv_cols, cc, origen, destinos,
                                                umbral_bajos_ab)
         IN  [msg |-> IF df_sug = <<>> THEN "warning_vacio" ELSE "tabla",
              df_sug |-> df_sug]

(* --------------------------- the script ------------------------------- *)

Todos == "Todos"

umbral_bajos_ab == 0

\* opciones_destino of the multiselect
opciones_destino(origen) ==
    IF origen = Todos THEN warehouses
    ELSE SelectSeq(warehouses, LAMBDA w : w # origen)

\* the values k of the loop  for inv in inv_cols  of the "Todos" branch
RECURSIVE KpisDe(_, _, _)
KpisDe(d, cc, invs) ==
    IF invs = <<>> THEN <<>>
    ELSE <<compute_kpis(get_origin_df(d, Head(invs), cc[Head(invs)]))>>
         \o KpisDe(d, cc, Tail(invs))

\* total[key] = k[key] in place of total[key] += k[key]
SumaKpis_ultimo(ks, campo) == IF ks = <<>> THEN 0 ELSE ks[Len(ks)][campo]

\* total[key] += k[key] over the values k
RECURSIVE SumaKpis(_, _)
SumaKpis(ks, campo) ==
    IF ks = <<>> THEN 0 ELSE Head(ks)[campo] + SumaKpis(Tail(ks), campo)

\* kpis_to_show of the "Todos" branch, from the dictionary total
KpisTodosDict(total) ==
    LET sa == total.skus_activos
    IN  [Titulo_origen |-> "SKU en archivo",
         Origen_txt |-> Todos,
         skus_totales |-> total.skus_totales,
         skus_activos |-> total.skus_activos,
         bajos_ab |-> total.bajos_ab,
         A |-> total.A,
         B |-> total.B,
         C |-> total.C,
         SinMov |-> total.SinMov,
         pct_A |-> pct(total.A, sa),
         pct_B |-> pct(total.B, sa),
         pct_C |-> pct(total.C, sa),
         pct_SinMov |-> pct(total.SinMov, sa)]

\* the "Todos" branch of the KPI panel: the sum, field by field, of
\* compute_kpis over inv_cols
kpis_todos(d, cc) ==
    CHOOSE shown \in
        {KpisTodosDict([skus_totales |-> SumaKpis(ks, "skus_totales"),
                        skus_activos |-> SumaKpis(ks, "skus_activos"),
                        bajos_ab |-> SumaKpis(ks, "bajos_ab"),
                        A |-> SumaKpis(ks, "A"),
                        B |-> SumaKpis(ks, "B"),
                        C |-> SumaKpis(ks, "C"),
                        SinMov |-> SumaKpis(ks, "SinMov")]) :
            ks \in {KpisDe(d, cc, inv_cols)}} : TRUE

\* the else branch of the KPI panel
kpis_origen(d, cc, origen) ==
    CHOOSE shown \in
        {[Titulo_origen |-> "SKU en origen",
          Origen_txt |-> origen,
          skus_totales |-> k.skus_totales,
          skus_activos |-> k.skus_activos,
          bajos_ab |-> k.bajos_ab,
          A |-> k.A,
          B |-> k.B,
          C |-> k.C,
          SinMov |-> k.SinMov,
          pct_A |-> k.pct_A,
          pct_B |-> k.pct_B,
          pct_C |-> k.pct_C,
          pct_SinMov |-> k.pct_SinMov] :
            k \in {compute_kpis(get_origin_df(d, origen, cc[origen]))}} : TRUE

\* the KPI panel
panel_kpis(d, cc, origen) ==
    IF origen = Todos THEN kpis_todos(d, cc) ELSE kpis_origen(d, cc, origen)

\* the KPI panel raises KeyError: get_origin_df selects the column None
kpis_raises(cc, origen) ==
    IF origen = Todos THEN \E w \in Almacenes : cc[w] = None
    ELSE cc[origen] = None

\* str() of a Codigo or of the number of a Clave
Digito(n) == <<"0", "1", "2", "3", "4", "5", "6", "7", "8", "9">>[n + 1]

\* the text of the Clave of rank k
ClaveTxt(k) == <<"M", Digito(k)>>

\* the text of Descripcion
DescripcionTxt(desc) ==
    IF desc = "articulo" THEN <<"a", "r", "t", "i", "c", "u", "l", "o">> ELSE <<>>

\* the mask of tab_buscar for one row
mask_buscar(row, txt) ==
    \/ Contains(Lower(ClaveTxt(row.Clave)), txt)
    \/ Contains(Lower(DescripcionTxt(row.Descripcion)), txt)
    \/ Contains(Lower(<<Digito(row.Codigo)>>), txt)

\* with tab_buscar
script_buscar(d, cc, busqueda_txt) ==
    LET df_buscar ==
            IF Strip(busqueda_txt) # <<>>
              THEN SelectSeq(d, LAMBDA row :
                                  mask_buscar(row, Lower(Strip(busqueda_txt))))
              ELSE d
        df_view == IF Len(df_buscar) > view_limit THEN head(df_buscar, view_limit)
                   ELSE df_buscar
    IN  [df_view |-> df_view,
         styles |-> style_class_colors_buscar(df_view, cc)]

\* what a tab shows when the script does not reach it
SinTab ==
    [msg |-> "", df_sug |-> <<>>, df_view |-> <<>>, csv_sug |-> NoCsv, styles |-> <<>>]

\* with tab_sugeridos
script_sugeridos(d, cc, origen, destinos) ==
    IF origen = Todos THEN [SinTab EXCEPT !.msg = "info_origen"]
    ELSE IF destinos = <<>> THEN [SinTab EXCEPT !.msg = "info_destinos"]
    ELSE CHOOSE tab \in
            {LET total_rows == Len(df_sug)
                 df_view == IF total_rows > view_limit THEN head(df_sug, view_limit)
                            ELSE df_sug
             IN  IF df_sug = <<>> THEN [SinTab EXCEPT !.msg = "warning_vacio"]
                 ELSE [msg |-> "tabla",
                       df_sug |-> df_sug,
                       df_view |-> df_view,
                       csv_sug |-> to_csv_sug(df_sug),
                       styles |-> style_class_colors(df_view)] :
               df_sug \in {build_suggestions(d, inv_cols, cc, origen, destinos,
                                             umbral_bajos_ab)}} : TRUE

\* build_suggestions raises KeyError: its inner loop reads row[None]
sugeridos_raises(d, cc, origen, destinos) ==
    /\ origen # Todos
    /\ \E i \in 1..Len(destinos) : cc[destinos[i]] = None
    /\ \E i \in 1..Len(d) : IsAB(StrStrip(d[i].cls[origen]))

SinTabInv ==
    [msg |-> "", df_base_cs |-> <<>>, csv_base |-> NoCsv, df_inv |-> <<>>,
     df_view |-> <<>>, csv_inv |-> NoCsv, styles |-> <<>>]

\* with tab_inversos
script_inversos(d, cc, origen, destinos) ==
    IF origen = Todos THEN [SinTabInv EXCEPT !.msg = "info_origen"]
    ELSE IF destinos = <<>> THEN [SinTabInv EXCEPT !.msg = "info_destinos"]
    ELSE CHOOSE tab \in
            {LET total_rows == Len(df_inv)
                 df_view == IF total_rows > view_limit THEN head(df_inv, view_limit)
                            ELSE df_inv
             IN  IF df_base_cs = <<>>
                   THEN [SinTabInv EXCEPT !.msg = "warning_base_vacia",
                                          !.df_inv = df_inv]
                 ELSE IF df_inv = <<>>
                   THEN [SinTabInv EXCEPT !.msg = "info_sin_ab",
                                          !.df_base_cs = df_base_cs,
                                          !.csv_base = to_csv_base(df_base_cs)]
                 ELSE [msg |-> "tabla",
                       df_base_cs |-> df_base_cs,
                       csv_base |-> to_csv_base(df_base_cs),
                       df_inv |-> df_inv,
                       df_view |-> df_view,
                       csv_inv |-> to_csv_sug(df_inv),
                       styles |-> style_class_colors(df_view)] :
               df_base_cs \in {get_base_c_sinmov(d, origen, cc)},
               df_inv \in {build_reverse_suggestions(d, inv_cols, cc, origen,
                                                     destinos, umbral_bajos_ab)}} : TRUE

\* build_reverse_suggestions raises KeyError: its inner loop reads row[None]
inversos_raises(d, cc, origen, destinos) ==
    /\ origen # Todos
    /\ \E i \in 1..Len(destinos) : cc[destinos[i]] = None
    /\ \E i \in 1..Len(d) : OrigenCSinPos(d[i], origen)


(* ------------------------- the input tables --------------------------- *)

Qty == (0 - 1)..MaxQty

SinMov == <<"S", "i", "n", " ", "M", "o", "v">>

\* classification cells of the rich family: A, a padded B, C, Sin Mov, a
\* lower-case c (no category) and a missing cell
RichCls == {<<"A">>, <<"B", " ">>, <<"C">>, SinMov, <<"c">>, NaN}

Fila(codigo, clave, q, c) ==
    [Codigo |-> codigo, Clave |-> clave, Descripcion |-> "articulo",
     inv |-> q, cls |-> c]

\* the rich family: one-row tables with every combination of existencia
\* and classification in Adelitas and in Matriz; Berriozabal does not
\* carry the article
RichTables ==
    {<<Fila(1, 1,
            [Adelitas |-> qa, Matriz |-> qm, Berriozabal |-> 0],
            [Adelitas |-> ca, Matriz |-> cm, Berriozabal |-> NaN])>> :
        qa \in Qty, qm \in Qty, ca \in RichCls, cm \in RichCls}

\* cells (existencia, classification) of the plain family
CellA0 == <<0, <<"A">> >>

CellC1 == <<1, <<"C">> >>

CellSM == <<MaxQty, SinMov>>

\* the rows of the plain family: A with existencia 0 in Matriz and slow
\* stock of the two kinds in the other two warehouses, or slow stock in
\* Matriz and A with existencia 0 in the other two
PlainCombos ==
    {[Adelitas |-> CellC1, Berriozabal |-> CellSM, Matriz |-> CellA0],
     [Adelitas |-> CellSM, Berriozabal |-> CellC1, Matriz |-> CellA0]}
    \cup {[Adelitas |-> CellA0, Berriozabal |-> CellA0, Matriz |-> m] :
            m \in {CellC1, CellSM}}

Claves == {1, 2}

PlainRows == {[Clave |-> k, cell |-> f] : k \in Claves, f \in PlainCombos}

\* the plain family: tables of up to MaxRows rows; rows may share a Clave
PlainTables ==
    UNION {{[i \in 1..n |->
                Fila(i, t[i].Clave,
                     [w \in Almacenes |-> t[i].cell[w][1]],
                     [w \in Almacenes |-> t[i].cell[w][2]])] :
             t \in [1..n -> PlainRows]} : n \in 0..MaxRows}

Tablas == RichTables \cup PlainTables

\* the threshold family: two articles, A in Matriz with every existencia, C
\* with existencia > 0 in Adelitas and Sin Mov in Berriozabal; the second
\* article has the smaller Clave
UmbralTables ==
    {<<Fila(1, 2,
            [Adelitas |-> d1, Matriz |-> q1, Berriozabal |-> MaxQty],
            [Adelitas |-> <<"C">>, Matriz |-> <<"A">>, Berriozabal |-> SinMov]),
       Fila(2, 1,
            [Adelitas |-> d2, Matriz |-> q2, Berriozabal |-> MaxQty],
            [Adelitas |-> <<"C">>, Matriz |-> <<"A">>, Berriozabal |-> SinMov])>> :
        q1 \in Qty, q2 \in Qty, d1 \in 1..MaxQty, d2 \in 1..MaxQty}

TablasCapado == RichTables \cup UmbralTables

(* ---------------------------- Balance.csv ---------------------------- *)

\* a quantity cell as read_csv gives it: a whole number, a decimal number
\* (in tenths), a text that is no number, a missing cell, or inf
CeldaInt(n) == [t |-> "int", v |-> n]

CeldaDec(decimos) == [t |-> "dec", v |-> decimos]

CeldaTexto == [t |-> "texto", v |-> 0]

CeldaNaN == [t |-> "nan", v |-> 0]

CeldaInf == [t |-> "inf", v |-> 0]

\* pd.to_numeric(col, errors="coerce"): a float in tenths, NaN or inf
to_numeric(celda) ==
    CASE celda.t = "int" -> [t |-> "num", decimos |-> 10 * celda.v]
      [] celda.t = "dec" -> [t |-> "num", decimos |-> celda.v]
      [] celda.t = "inf" -> [t |-> "inf", decimos |-> 0]
      [] OTHER -> [t |-> "nan", decimos |-> 0]

\* .fillna(0)
fillna0(x) == IF x.t = "nan" THEN [t |-> "num", decimos |-> 0] ELSE x

\* .astype(int) raises on a value that is not finite
astype_int_raises(x) == x.t # "num"

\* .astype(int): truncation towards zero
astype_int(x) ==
    IF x.decimos >= 0 THEN x.decimos \div 10 ELSE 0 - ((0 - x.decimos) \div 10)

\* load_balance: class_cols from the columns of the file, and every
\* inventory column through to_numeric, fillna(0), astype(int)
load_balance(arch) ==
    [raises |-> \E i \in 1..Len(arch.filas), w \in Almacenes :
                    astype_int_raises(fillna0(to_numeric(arch.filas[i].inv[w]))),
     df |-> [i \in 1..Len(arch.filas) |->
               [arch.filas[i] EXCEPT
                   !.inv = [w \in Almacenes |->
                              astype_int(fillna0(to_numeric(arch.filas[i].inv[w])))]]],
     class_cols |-> [w \in Almacenes |->
                       IF w \in arch.clases THEN ClsName(w) ELSE None]]

\* the file whose cells are the whole numbers of table t and that has
\* every ".1" column
Crudo(t) ==
    [clases |-> Almacenes,
     filas |-> [i \in 1..Len(t) |->
                  [t[i] EXCEPT !.inv = [w \in Almacenes |-> CeldaInt(t[i].inv[w])]]]]

\* quantity cells of the raw family: -1, 0, MaxQty, 2.5, -0.5, a text, a
\* missing cell, inf
CeldasCrudas ==
    {CeldaInt(0 - 1), CeldaInt(0), CeldaInt(MaxQty), CeldaDec(25), CeldaDec(0 - 5),
     CeldaTexto, CeldaNaN, CeldaInf}

\* the raw family: one article, A in Matriz and C in Adelitas, with every
\* pair of raw quantity cells
ArchivosCrudos ==
    {[clases |-> Almacenes,
      filas |-> <<Fila(1, 1,
                       [Adelitas |-> qa, Matriz |-> qm, Berriozabal |-> CeldaInt(0)],
                       [Adelitas |-> <<"C">>, Matriz |-> <<"A">>,
                        Berriozabal |-> NaN])>>] :
        qa \in CeldasCrudas, qm \in CeldasCrudas}

\* the files of at most one article of the plain family in which some
\* warehouse has no ".1" column; its classification cells do not exist
ArchivosSinClase ==
    {[clases |-> cs,
      filas |-> [i \in 1..Len(t) |->
                   [Crudo(t).filas[i] EXCEPT
                       !.cls = [w \in Almacenes |->
                                  IF w \in cs THEN t[i].cls[w] ELSE NaN]]]] :
        t \in {u \in PlainTables : Len(u) <= 1},
        cs \in (SUBSET Almacenes) \ {Almacenes}}

(* ----------------------------- the state ------------------------------ *)

VARIABLES
    data,           \* the DataFrame load_balance returned
    class_cols,     \* class_cols of load_balance
    origen_sel,     \* the selectbox
    destinos_sel,   \* the multiselect, in the order the user chose
    error,          \* "" or the exception that stopped the last run
    kpis_to_show,   \* the KPI cards
    tab_buscar,     \* what the three tabs show
    tab_sugeridos,
    tab_inversos,
    umbral,         \* the threshold; umbral_bajos_ab in the uncapped variant
    tab_capado,     \* what the capped forward report shows
    busqueda,       \* the text_input of tab_buscar
    archivo         \* Balance.csv as read_csv gives it

vars == <<data, class_cols, origen_sel, destinos_sel, error, kpis_to_show,
          tab_buscar, tab_sugeridos, tab_inversos, umbral, tab_capado, busqueda,
          archivo>>

SinKpis == [Titulo_origen |-> "", Origen_txt |-> ""]

SinBuscar == [df_view |-> <<>>, styles |-> <<>>]

\* one run of the script, top to bottom; an exception ends it where it is
\* raised and nothing below is drawn
Run(d, cc, origen, destinos, busqueda_txt) ==
    LET e1 == kpis_raises(cc, origen)
        e2 == e1 \/ sugeridos_raises(d, cc, origen, destinos)
        e3 == e2 \/ inversos_raises(d, cc, origen, destinos)
    IN  [error |-> IF e3 THEN "KeyError" ELSE "",
         kpis_to_show |-> IF e1 THEN SinKpis ELSE panel_kpis(d, cc, origen),
         tab_buscar |-> IF e1 THEN SinBuscar ELSE script_buscar(d, cc, busqueda_txt),
         tab_sugeridos |->
            IF e2 THEN SinTab ELSE script_sugeridos(d, cc, origen, destinos),
         tab_inversos |->
            IF e3 THEN SinTabInv ELSE script_inversos(d, cc, origen, destinos)]

Shown(r) ==
    /\ error = r.error
    /\ kpis_to_show = r.kpis_to_show
    /\ tab_buscar = r.tab_buscar
    /\ tab_sugeridos = r.tab_sugeridos
    /\ tab_inversos = r.tab_inversos

ShownNext(r) ==
    /\ error' = r.error
    /\ kpis_to_show' = r.kpis_to_show
    /\ tab_buscar' = r.tab_buscar
    /\ tab_sugeridos' = r.tab_sugeridos
    /\ tab_inversos' = r.tab_inversos

origin_options == <<Todos>> \o warehouses

default_origin ==
    IF "Matriz" \in SeqToSet(warehouses) THEN "Matriz" ELSE origin_options[2]

\* the script stopped at the except branch of the load
load_error == "load_error"

\* every warehouse column has its ".1" column
FullSchema == [w \in Almacenes |-> ClsName(w)]

\* the first run on a file of the set archivos: load_balance inside try;
\* on an exception st.error and st.stop, and no widget is drawn
InitDe(archivos) ==
    /\ archivo \in archivos
    /\ busqueda = <<>>
    /\ umbral = umbral_bajos_ab
    /\ tab_capado = SinTabCapado
    /\ \E lb \in {load_balance(archivo)} :
          IF lb.raises
            THEN /\ data = <<>>
                 /\ class_cols = lb.class_cols
                 /\ origen_sel = ""
                 /\ destinos_sel = <<>>
                 /\ error = load_error
                 /\ kpis_to_show = SinKpis
                 /\ tab_buscar = SinBuscar
                 /\ tab_sugeridos = SinTab
                 /\ tab_inversos = SinTabInv
            ELSE /\ data = lb.df
                 /\ class_cols = lb.class_cols
                 /\ origen_sel = default_origin
                 /\ destinos_sel = opciones_destino(default_origin)
                 /\ \E r \in {Run(lb.df, lb.class_cols, default_origin,
                                   opciones_destino(default_origin), <<>>)} : Shown(r)

Init == InitDe({Crudo(t) : t \in Tablas})

\* the user picks another origin; the multiselect, whose options changed,
\* starts again from its default, every option
SelectOrigen(o) ==
    /\ error # load_error
    /\ o # origen_sel
    /\ origen_sel' = o
    /\ destinos_sel' = opciones_destino(o)
    /\ UNCHANGED <<data, class_cols, umbral, tab_capado, busqueda, archivo>>
    /\ \E r \in {Run(data, class_cols, o, opciones_destino(o), busqueda)} :
            ShownNext(r)

\* the multiselect changes and the tabs keep what they showed
AddDestino_memo(w) ==
    /\ error # load_error
    /\ w \in SeqToSet(opciones_destino(origen_sel))
    /\ w \notin SeqToSet(destinos_sel)
    /\ destinos_sel' = Append(destinos_sel, w)
    /\ UNCHANGED <<data, class_cols, origen_sel, umbral, tab_capado, busqueda,
                   archivo, error, kpis_to_show, tab_buscar, tab_sugeridos, tab_inversos>>

\* the user adds one option to the multiselect
AddDestino(w) ==
    /\ error # load_error
    /\ w \in SeqToSet(opciones_destino(origen_sel))
    /\ w \notin SeqToSet(destinos_sel)
    /\ destinos_sel' = Append(destinos_sel, w)
    /\ UNCHANGED <<data, class_cols, origen_sel, umbral, tab_capado, busqueda, archivo>>
    /\ \E r \in {Run(data, class_cols, origen_sel, Append(destinos_sel, w),
                       busqueda)} : ShownNext(r)

\* the user removes one option from the multiselect
RemoveDestino(w) ==
    /\ error # load_error
    /\ w \in SeqToSet(destinos_sel)
    /\ destinos_sel' = SelectSeq(destinos_sel, LAMBDA x : x # w)
    /\ UNCHANGED <<data, class_cols, origen_sel, umbral, tab_capado, busqueda, archivo>>
    /\ \E r \in {Run(data, class_cols, origen_sel,
                       SelectSeq(destinos_sel, LAMBDA x : x # w), busqueda)} :
            ShownNext(r)

Next ==
    \/ \E o \in SeqToSet(origin_options) : SelectOrigen(o)
    \/ \E w \in Almacenes : AddDestino(w)
    \/ \E w \in Almacenes : RemoveDestino(w)

Spec == Init /\ [][Next]_vars

(* ------------------------- with the search box ------------------------ *)

\* texts typed into the search box: none, a Clave in upper case with a
\* blank after it, a digit
Busquedas == {<<>>, <<"M", "1", " ">>, <<"2">>}

\* tables of two articles of the plain family
TablasSesion ==
    {[i \in 1..2 |->
          Fila(i, t[i].Clave,
               [w \in Almacenes |-> t[i].cell[w][1]],
               [w \in Almacenes |-> t[i].cell[w][2]])] :
       t \in [1..2 -> PlainRows]}

InitSesion == InitDe({Crudo(t) : t \in TablasSesion})

\* the user types a text into the search box
SetBusqueda(q) ==
    /\ q # busqueda
    /\ busqueda' = q
    /\ UNCHANGED <<data, class_cols, origen_sel, destinos_sel, umbral, tab_capado,
                   archivo>>
    /\ \E r \in {Run(data, class_cols, origen_sel, destinos_sel, q)} : ShownNext(r)

NextSesion ==
    \/ Next
    \/ \E q \in Busquedas : SetBusqueda(q)

SpecSesion == InitSesion /\ [][NextSesion]_vars

(* ------------------------ with any Balance.csv ------------------------ *)

InitArchivo == InitDe(ArchivosCrudos \cup ArchivosSinClase)

SpecArchivo == InitArchivo /\ [][Next]_vars

(* ------------------------ the capped variant -------------------------- *)

\* the values of the threshold slider
Umbrales == 1..MaxUmbral

\* one run of the capped variant with origin o, destinations ds and
\* threshold t: the capped report is drawn
CapadoNext(o, ds, t) ==
    /\ origen_sel' = o
    /\ destinos_sel' = ds
    /\ umbral' = t
    /\ tab_capado' = script_capado(data, class_cols, o, ds, t)
    /\ UNCHANGED <<data, class_cols, error, kpis_to_show, tab_buscar,
                   tab_sugeridos, tab_inversos, busqueda, archivo>>

InitCapado ==
    /\ data \in TablasCapado
    /\ archivo = Crudo(data)
    /\ class_cols = FullSchema
    /\ origen_sel = default_origin
    /\ destinos_sel = opciones_destino(default_origin)
    /\ umbral \in Umbrales
    /\ tab_capado = script_capado(data, class_cols, origen_sel, destinos_sel, umbral)
    /\ error = ""
    /\ busqueda = <<>>
    /\ kpis_to_show = SinKpis
    /\ tab_buscar = SinBuscar
    /\ tab_sugeridos = SinTab
    /\ tab_inversos = SinTabInv

SelectOrigenCapado(o) ==
    /\ o # origen_sel
    /\ CapadoNext(o, opciones_destino(o), umbral)

AddDestinoCapado(w) ==
    /\ w \in SeqToSet(opciones_destino(origen_sel))
    /\ w \notin SeqToSet(destinos_sel)
    /\ CapadoNext(origen_sel, Append(destinos_sel, w), umbral)

RemoveDestinoCapado(w) ==
    /\ w \in SeqToSet(destinos_sel)
    /\ CapadoNext(origen_sel, SelectSeq(destinos_sel, LAMBDA x : x # w), umbral)

\* the user moves the threshold slider
SetUmbral(t) ==
    /\ t # umbral
    /\ CapadoNext(origen_sel, destinos_sel, t)

NextCapado ==
    \/ \E o \in SeqToSet(origin_options) : SelectOrigenCapado(o)
    \/ \E w \in Almacenes : AddDestinoCapado(w)
    \/ \E w \in Almacenes : RemoveDestinoCapado(w)
    \/ \E t \in Umbrales : SetUmbral(t)

SpecCapado == InitCapado /\ [][NextCapado]_vars

(* ------------------- what the claims speak about ---------------------- *)

\* the category a classification text stands for: the tags A, B, C, the
\* no-movement tag, or none
Categoria(c) ==
    CASE Strip(c) = <<"A">> -> "A"
      [] Strip(c) = <<"B">> -> "B"
      [] Strip(c) = <<"C">> -> "C"
      [] Contains(Lower(Strip(c)), sin) -> "SinMov"
      [] OTHER -> "ninguna"

EsAB(c) == Categoria(c) \in {"A", "B"}

EsLento(c) == Categoria(c) \in {"C", "SinMov"}

\* the script of the last run called the suggestion functions
SugCalculado == error = "" /\ origen_sel # Todos /\ destinos_sel # <<>>

Destinos == SeqToSet(destinos_sel)

\* record i qualifies for a forward row with destination w
Califica(i, w) ==
    /\ EsAB(data[i].cls[origen_sel])
    /\ data[i].inv[w] > 0
    /\ EsLento(data[i].cls[w])

\* record i qualifies for a reverse row with destination w
CalificaInv(i, w) ==
    /\ EsLento(data[i].cls[origen_sel])
    /\ data[i].inv[origen_sel] > 0
    /\ EsAB(data[i].cls[w])

\* row r of a suggestion table is the row of record i and destination w
EsFilaDe(r, i, w) ==
    /\ r.Codigo = data[i].Codigo
    /\ r.Clave = data[i].Clave
    /\ r.AlmacenOrigen = origen_sel
    /\ r.ExistenciaOrigen = data[i].inv[origen_sel]
    /\ Categoria(r.ClasifOrigen) = Categoria(data[i].cls[origen_sel])
    /\ r.AlmacenDestino = w
    /\ r.ExistenciaDestino = data[i].inv[w]
    /\ Categoria(r.ClasifDestino) = Categoria(data[i].cls[w])

\* C1: the forward suggestions hold a row for (record, selected destination)
\* exactly when the origin classification is A or B, whatever the origin
\* existencia, and the destination has existencia > 0 and classification C
\* or no-movement; every row is the row of one such pair, once
C1_ForwardIff ==
    SugCalculado =>
        LET df == tab_sugeridos.df_sug
        IN  /\ \A i \in 1..Len(data), w \in Destinos :
                  Califica(i, w) <=> \E j \in 1..Len(df) : EsFilaDe(df[j], i, w)
            /\ \A j \in 1..Len(df) :
                  \E i \in 1..Len(data), w \in Destinos : EsFilaDe(df[j], i, w)
            /\ \A j, k \in 1..Len(df) :
                  (df[j].Codigo = df[k].Codigo
                      /\ df[j].AlmacenDestino = df[k].AlmacenDestino) => j = k

\* C1: a record that is A in the origin with existencia 0 and C in a
\* destination with existencia > 0 is shown
C1_Witness ==
    /\ SugCalculado
    /\ \E j \in 1..Len(tab_sugeridos.df_sug) :
          LET r == tab_sugeridos.df_sug[j]
          IN  /\ r.ClasifOrigen = <<"A">> /\ r.ExistenciaOrigen = 0
              /\ r.ClasifDestino = <<"C">> /\ r.ExistenciaDestino > 0

\* C2: the reverse suggestions hold a row for (record, selected destination)
\* exactly when the origin classification is C or no-movement with origin
\* existencia > 0 and the destination classification is A or B, whatever
\* the destination existencia; every row is the row of one such pair, once
C2_ReverseIff ==
    SugCalculado =>
        LET df == tab_inversos.df_inv
        IN  /\ \A i \in 1..Len(data), w \in Destinos :
                  CalificaInv(i, w) <=> \E j \in 1..Len(df) : EsFilaDe(df[j], i, w)
            /\ \A j \in 1..Len(df) :
                  \E i \in 1..Len(data), w \in Destinos : EsFilaDe(df[j], i, w)
            /\ \A j, k \in 1..Len(df) :
                  (df[j].Codigo = df[k].Codigo
                      /\ df[j].AlmacenDestino = df[k].AlmacenDestino) => j = k

\* C2: a record C in the origin with existencia 1 is shown for an A
\* destination whose existencia is 0
C2_Witness ==
    /\ SugCalculado
    /\ \E j \in 1..Len(tab_inversos.df_inv) :
          LET r == tab_inversos.df_inv[j]
          IN  /\ r.ClasifOrigen = <<"C">> /\ r.ExistenciaOrigen = 1
              /\ r.ClasifDestino = <<"A">> /\ r.ExistenciaDestino = 0

\* the KPI cards are drawn
KpisShown == error = ""

\* the fraction f is count / total, or 0 when total is 0; its denominator
\* is never 0
EsPorcentaje(f, count, total) ==
    /\ f[2] # 0
    /\ total = 0 => f[1] = 0
    /\ total # 0 => f[1] * total = count * f[2]

\* C3: for a single warehouse and for "Todos", skus_activos is A + B + C +
\* SinMov and each percentage is its count over skus_activos, 0 when
\* skus_activos is 0, with no division by zero
C3_KpiSum ==
    KpisShown =>
        LET k == kpis_to_show
        IN  /\ k.skus_activos = k.A + k.B + k.C + k.SinMov
            /\ EsPorcentaje(k.pct_A, k.A, k.skus_activos)
            /\ EsPorcentaje(k.pct_B, k.B, k.skus_activos)
            /\ EsPorcentaje(k.pct_C, k.C, k.skus_activos)
            /\ EsPorcentaje(k.pct_SinMov, k.SinMov, k.skus_activos)

\* C3: the "Todos" aggregate with several active SKU, among them A and
\* no-movement ones
C3_Witness ==
    /\ KpisShown /\ origen_sel = Todos
    /\ kpis_to_show.skus_activos > 2
    /\ kpis_to_show.A > 0 /\ kpis_to_show.SinMov > 0
    /\ kpis_to_show.pct_A = <<kpis_to_show.A, kpis_to_show.skus_activos>>

\* the Claves of warehouse w that the claims count under category cat
ClavesDe(w, cat) ==
    {data[i].Clave : i \in {j \in 1..Len(data) :
        /\ Categoria(data[j].cls[w]) = cat
        /\ cat = "SinMov" => data[j].inv[w] > 0}}

RECURSIVE SumaSobre(_, _)
SumaSobre(ws, cat) ==
    IF ws = {} THEN 0
    ELSE LET w == CHOOSE x \in ws : TRUE
         IN  Cardinality(ClavesDe(w, cat)) + SumaSobre(ws \ {w}, cat)

\* the warehouses the KPI cards are about
Alcance == IF origen_sel = Todos THEN Almacenes ELSE {origen_sel}

\* C4: a no-movement record is counted only when its existencia is > 0; an
\* A, B or C record is counted whatever its existencia
C4_SinMovPositive ==
    KpisShown =>
        /\ kpis_to_show.A = SumaSobre(Alcance, "A")
        /\ kpis_to_show.B = SumaSobre(Alcance, "B")
        /\ kpis_to_show.C = SumaSobre(Alcance, "C")
        /\ kpis_to_show.SinMov = SumaSobre(Alcance, "SinMov")

\* C4: one warehouse holds a no-movement record at existencia 0, not
\* counted, and another a C record at negative existencia, counted
C4_Witness ==
    /\ KpisShown /\ origen_sel = Todos
    /\ \E i \in 1..Len(data) :
          /\ Categoria(data[i].cls["Adelitas"]) = "SinMov"
          /\ data[i].inv["Adelitas"] = 0
          /\ Categoria(data[i].cls["Matriz"]) = "C"
          /\ data[i].inv["Matriz"] < 0
    /\ kpis_to_show.SinMov = 0 /\ kpis_to_show.C = 1

\* the rows of the forward table that come from record i
FilasDe(i) ==
    {j \in 1..Len(tab_sugeridos.df_sug) :
        tab_sugeridos.df_sug[j].Codigo = data[i].Codigo}

\* C5: a record gives the forward table one row per selected destination
\* that qualifies and no other, so at most as many as destinations are
\* selected, while the KPI counts its Clave once; the Claves of the table
\* are among those compute_kpis counts under A or B for the origin
C5_FanOut ==
    SugCalculado =>
        LET df == tab_sugeridos.df_sug
            df_o == get_origin_df(data, origen_sel, class_cols[origen_sel])
            ab == {df_o[i].Clave : i \in mask_A(df_o) \cup mask_B(df_o)}
            en_tabla == {df[j].Clave : j \in 1..Len(df)}
        IN  /\ \A i \in 1..Len(data) :
                  /\ Cardinality(FilasDe(i))
                        = Cardinality({w \in Destinos : Califica(i, w)})
                  /\ Cardinality(FilasDe(i)) <= Len(destinos_sel)
            /\ en_tabla \subseteq ab
            /\ Cardinality(en_tabla) <= kpis_to_show.A + kpis_to_show.B

\* C5: one record fills as many rows as destinations are selected, two,
\* and the KPI counts one A
C5_Witness ==
    /\ SugCalculado
    /\ Len(destinos_sel) = 2
    /\ kpis_to_show.A = 1
    /\ \E i \in 1..Len(data) : Cardinality(FilasDe(i)) = 2

\* the line of the CSV file for row r of a suggestion table
LineaCsv(r) ==
    <<r.Codigo, r.Clave, r.Descripcion, r.AlmacenOrigen, r.ExistenciaOrigen,
      r.ClasifOrigen, r.AlmacenDestino, r.ExistenciaDestino, r.ClasifDestino>>

\* the data lines of a CSV file; a file that is not offered has none
LineasCsv(csv) == IF csv = NoCsv THEN <<>> ELSE Tail(csv)

Min(a, b) == IF a < b THEN a ELSE b

\* the CSV has the n rows of df in order and the table its first
\* min(n, view_limit) rows
VistaYExporta(df, df_view, csv) ==
    /\ Len(LineasCsv(csv)) = Len(df)
    /\ \A j \in 1..Len(df) : LineasCsv(csv)[j] = LineaCsv(df[j])
    /\ Len(df_view) = Min(Len(df), view_limit)
    /\ \A j \in 1..Len(df_view) : df_view[j] = df[j]

\* C7: for the forward and the reverse report the exported CSV holds all n
\* result rows in result order and the table on screen the first
\* min(n, view_limit) of them (view_limit stands for 500)
C7_ViewExport ==
    SugCalculado =>
        /\ VistaYExporta(build_suggestions(data, inv_cols, class_cols, origen_sel,
                                           destinos_sel, umbral_bajos_ab),
                         tab_sugeridos.df_view, tab_sugeridos.csv_sug)
        /\ VistaYExporta(build_reverse_suggestions(data, inv_cols, class_cols,
                                                   origen_sel, destinos_sel,
                                                   umbral_bajos_ab),
                         tab_inversos.df_view, tab_inversos.csv_inv)

\* C7: the forward result is longer than the table on screen shows
C7_Witness ==
    /\ SugCalculado
    /\ Len(tab_sugeridos.df_sug) > view_limit
    /\ Len(tab_sugeridos.df_view) = view_limit
    /\ Len(tab_sugeridos.csv_sug) = Len(tab_sugeridos.df_sug) + 1

\* C8: the forward table is ordered by destination existencia descending
\* and, on equal destination existencia, by Clave ascending, and holds as
\* many rows as there are qualifying (record, destination) pairs
C8_SortOrder ==
    SugCalculado =>
        LET df == tab_sugeridos.df_sug
        IN  /\ \A j, k \in 1..Len(df) :
                  j < k =>
                      \/ df[j].ExistenciaDestino > df[k].ExistenciaDestino
                      \/ /\ df[j].ExistenciaDestino = df[k].ExistenciaDestino
                         /\ df[j].Clave <= df[k].Clave
            /\ Len(df) = Cardinality({p \in (1..Len(data)) \X Destinos :
                                          Califica(p[1], p[2])})
            /\ \A p \in (1..Len(data)) \X Destinos :
                  Califica(p[1], p[2]) =>
                      \E j \in 1..Len(df) : EsFilaDe(df[j], p[1], p[2])

\* C8: two rows tie on destination existencia, the one with the smaller
\* Clave first although its record comes later in the file, below a row
\* with a larger destination existencia
C8_Witness ==
    /\ SugCalculado
    /\ \E j, k, l \in 1..Len(tab_sugeridos.df_sug) :
          LET df == tab_sugeridos.df_sug
          IN  /\ l < j /\ j < k
              /\ df[l].ExistenciaDestino > df[j].ExistenciaDestino
              /\ df[j].ExistenciaDestino = df[k].ExistenciaDestino
              /\ df[j].Clave < df[k].Clave
              /\ df[j].Codigo > df[k].Codigo

\* the tag the colour table gives a (classification, existencia) pair
Etiqueta(clas, exist) ==
    CASE Categoria(clas) \in {"A", "B"} /\ exist > 0 -> verde
      [] Categoria(clas) \in {"A", "B"} /\ exist = 0 -> azul
      [] Categoria(clas) = "C" /\ exist > 0 -> naranja
      [] Categoria(clas) = "SinMov" /\ exist > 0 -> rojo
      [] OTHER -> SinColor

\* the styles of a suggestion table follow the colour table, origin pair
\* and destination pair each on its own
EstilosSegunTabla(df_view, styles) ==
    /\ Len(styles) = Len(df_view)
    /\ \A j \in 1..Len(df_view) :
          /\ styles[j].origen
                = Etiqueta(df_view[j].ClasifOrigen, df_view[j].ExistenciaOrigen)
          /\ styles[j].destino
                = Etiqueta(df_view[j].ClasifDestino, df_view[j].ExistenciaDestino)

\* C9: the buscador table per warehouse pair and the two suggestion tables
\* per origin pair and per destination pair give every (classification,
\* existencia) pair the tag of the colour table
C9_Colorizer ==
    KpisShown =>
        /\ Len(tab_buscar.styles) = Len(tab_buscar.df_view)
        /\ \A j \in 1..Len(tab_buscar.df_view), w \in Almacenes :
              tab_buscar.styles[j][w]
                  = Etiqueta(tab_buscar.df_view[j].cls[w], tab_buscar.df_view[j].inv[w])
        /\ EstilosSegunTabla(tab_sugeridos.df_view, tab_sugeridos.styles)
        /\ EstilosSegunTabla(tab_inversos.df_view, tab_inversos.styles)

\* C9: the pair (A, negative existencia) is shown in the buscador and as
\* the origin pair of a forward row, untagged in both, beside a tagged
\* destination pair
C9_Witness ==
    /\ SugCalculado
    /\ \E j \in 1..Len(tab_sugeridos.df_view) :
          /\ tab_sugeridos.df_view[j].ClasifOrigen = <<"A">>
          /\ tab_sugeridos.df_view[j].ExistenciaOrigen < 0
          /\ tab_sugeridos.styles[j].origen = SinColor
          /\ tab_sugeridos.styles[j].destino = rojo
    /\ \E j \in 1..Len(tab_buscar.df_view) :
          /\ tab_buscar.df_view[j].cls[origen_sel] = <<"A">>
          /\ tab_buscar.df_view[j].inv[origen_sel] < 0
          /\ tab_buscar.styles[j][origen_sel] = SinColor

\* the records the base listing is to hold for the origin: classification
\* C or no-movement and existencia > 0
Lentos ==
    {i \in 1..Len(data) :
        EsLento(data[i].cls[origen_sel]) /\ data[i].inv[origen_sel] > 0}

\* the base listing shown lists exactly the records of Lentos, each with
\* its Clave and its origin pair, and offers them for download
ListadoBase ==
    LET df == tab_inversos.df_base_cs
    IN  /\ Len(df) = Cardinality(Lentos)
        /\ \A i \in Lentos :
              \E j \in 1..Len(df) :
                  /\ df[j].Codigo = data[i].Codigo
                  /\ df[j].Clave = data[i].Clave
                  /\ df[j].Existencia_origen = data[i].inv[origen_sel]
                  /\ df[j].Clasif_origen = Strip(data[i].cls[origen_sel])
        /\ Len(LineasCsv(tab_inversos.csv_base)) = Len(df)
        /\ \A j \in 1..Len(df) :
              LineasCsv(tab_inversos.csv_base)[j]
                  = <<df[j].Codigo, df[j].Clave, df[j].Descripcion,
                      df[j].Existencia_origen, df[j].Clasif_origen>>

\* C10 as stated: for a chosen origin the base listing lists exactly the
\* C or no-movement records with existencia > 0 and is offered to the
\* caller whatever destinations are selected, none included
C10_BaseListingAnyDestinos ==
    (error = "" /\ origen_sel # Todos) => ListadoBase

\* C10, amended: for a chosen origin and any non-empty selection of
\* destinations, one without an A/B destination for any record included,
\* the base listing lists exactly the C or no-movement records with
\* existencia > 0 and is offered to the caller; with no destination
\* selected no listing is produced
C10_BaseListing ==
    /\ SugCalculado => ListadoBase
    /\ (error = "" /\ origen_sel # Todos /\ destinos_sel = <<>>) =>
          /\ tab_inversos.msg = "info_destinos"
          /\ tab_inversos.df_base_cs = <<>>
          /\ tab_inversos.csv_base = NoCsv

\* C10: destinations are selected, none of them A/B for any record, and
\* the listing of more than one record is offered all the same
C10_Witness ==
    /\ SugCalculado
    /\ tab_inversos.msg = "info_sin_ab"
    /\ Len(tab_inversos.df_base_cs) > 1
    /\ tab_inversos.csv_base # NoCsv

\* the capped report of the last run was computed
CapadoCalculado == umbral \in Umbrales /\ origen_sel # Todos /\ destinos_sel # <<>>

\* the rows of the capped report for record i
FilasCapadoDe(i) ==
    {j \in 1..Len(tab_capado.df_sug) :
        tab_capado.df_sug[j].reg.Codigo = data[i].Codigo}

\* C6: under the capped policy with threshold umbral a record whose origin
\* existencia is >= umbral has no row, even with a valid destination, and a
\* row of a record with a shortfall carries suggested = min(destination
\* existencia, umbral - origin existencia)
C6_Capado ==
    CapadoCalculado =>
        \A i \in 1..Len(data) :
            /\ data[i].inv[origen_sel] >= umbral => FilasCapadoDe(i) = {}
            /\ \A j \in FilasCapadoDe(i) :
                  LET r == tab_capado.df_sug[j]
                  IN  /\ umbral - data[i].inv[origen_sel] > 0
                      /\ r.Sugerido
                            = Min(data[i].inv[r.reg.AlmacenDestino],
                                  umbral - data[i].inv[origen_sel])

\* C6: one A record at the threshold has a valid destination and no row
\* while the other, below the threshold, has a row whose suggested quantity
\* is its shortfall, less than what the destination holds
C6_Witness ==
    /\ CapadoCalculado
    /\ \E i, k \in 1..Len(data) :
          /\ data[i].inv[origen_sel] = umbral
          /\ EsAB(data[i].cls[origen_sel])
          /\ \E w \in Destinos : Califica(i, w)
          /\ FilasCapadoDe(i) = {}
          /\ \E j \in FilasCapadoDe(k) :
                /\ tab_capado.df_sug[j].Sugerido = umbral - data[k].inv[origen_sel]
                /\ tab_capado.df_sug[j].Sugerido
                      < tab_capado.df_sug[j].reg.ExistenciaDestino

\* what a fresh session shows for the dataset and the current values of
\* the selectbox, the multiselect and the search box
Fresca == Run(data, class_cols, origen_sel, destinos_sel, busqueda)

SinFilasDe(df, w) ==
    \A j \in 1..Len(df) : df[j].AlmacenOrigen # w /\ df[j].AlmacenDestino # w

\* C12: a warehouse without classification column stays in the warehouse
\* list and, whatever is selected as origin (itself and "Todos" included)
\* and as destinations, no exception is raised, it adds nothing to the
\* categorized counts and it is in no suggestion row
C12_MissingClassNoError ==
    \A w \in Almacenes :
        (error # load_error /\ class_cols[w] = None) =>
            /\ w \in SeqToSet(origin_options)
            /\ error = ""
            /\ SinFilasDe(tab_sugeridos.df_sug, w)
            /\ SinFilasDe(tab_inversos.df_inv, w)
            /\ origen_sel = w =>
                  /\ kpis_to_show.A = 0 /\ kpis_to_show.B = 0
                  /\ kpis_to_show.C = 0 /\ kpis_to_show.SinMov = 0

\* the quantity cell of the file for article i and warehouse w is missing
\* or no number
SinNumero(i, w) == archivo.filas[i].inv[w].t \in {"nan", "texto"}

\* C13: after load_balance no error has been raised, every quantity of
\* every warehouse column is a non-negative integer and a missing or
\* unparsable cell is 0
C13_QuantityNonNegative ==
    /\ error # load_error
    /\ Len(data) = Len(archivo.filas)
    /\ \A i \in 1..Len(data), w \in Almacenes :
          /\ data[i].inv[w] \in Nat
          /\ SinNumero(i, w) => data[i].inv[w] = 0

\* the Claves that warehouse w alone counts in field campo, a field other
\* than skus_activos
ClavesDeCampo(w, campo) ==
    CASE campo = "skus_totales" -> {data[i].Clave : i \in 1..Len(data)}
      [] campo = "bajos_ab" ->
            {data[i].Clave : i \in {j \in 1..Len(data) :
                EsAB(data[j].cls[w]) /\ data[j].inv[w] = 0}}
      [] OTHER -> ClavesDe(w, campo)

\* what warehouse w alone gives for field campo
ValorDe(w, campo) ==
    IF campo = "skus_activos"
      THEN Cardinality(ClavesDe(w, "A")) + Cardinality(ClavesDe(w, "B"))
           + Cardinality(ClavesDe(w, "C")) + Cardinality(ClavesDe(w, "SinMov"))
      ELSE Cardinality(ClavesDeCampo(w, campo))

RECURSIVE SumaValores(_, _)
SumaValores(ws, campo) ==
    IF ws = {} THEN 0
    ELSE LET w == CHOOSE x \in ws : TRUE
         IN  ValorDe(w, campo) + SumaValores(ws \ {w}, campo)

CamposKpi == {"skus_totales", "skus_activos", "bajos_ab", "A", "B", "C", "SinMov"}

\* C14: with origin "Todos" each count field of the cards is the sum over
\* the warehouses of what the warehouse alone gives, so skus_totales is the
\* number of warehouses times the number of distinct Claves
C14_TodosSum ==
    (KpisShown /\ origen_sel = Todos) =>
        /\ \A campo \in CamposKpi :
              kpis_to_show[campo] = SumaValores(Almacenes, campo)
        /\ kpis_to_show.skus_totales
              = Cardinality(Almacenes)
                * Cardinality({data[i].Clave : i \in 1..Len(data)})

\* C14: one Clave, active in the three warehouses, counts three times
C14_Witness ==
    /\ KpisShown /\ origen_sel = Todos
    /\ Cardinality({data[i].Clave : i \in 1..Len(data)}) = 1
    /\ \A w \in Almacenes : ValorDe(w, "skus_activos") = 1
    /\ kpis_to_show.skus_activos = 3
    /\ kpis_to_show.skus_totales = 3

\* a destination list that holds the origin, before the selected ones
ConOrigen == <<origen_sel>> \o destinos_sel

\* no row of df has its origin warehouse as destination
SinAutoTraslado(df) == \A j \in 1..Len(df) : df[j].AlmacenDestino # df[j].AlmacenOrigen

\* C15: the selected destinations never hold the specific origin, and the
\* forward and the reverse function give no row from a warehouse to itself,
\* not even when called with a destination list that holds the origin
C15_NoSelfTransfer ==
    (error = "" /\ origen_sel # Todos) =>
        /\ origen_sel \notin Destinos
        /\ SinAutoTraslado(tab_sugeridos.df_sug)
        /\ SinAutoTraslado(tab_inversos.df_inv)
        /\ SinAutoTraslado(build_suggestions(data, inv_cols, class_cols, origen_sel,
                                             ConOrigen, umbral_bajos_ab))
        /\ SinAutoTraslado(build_reverse_suggestions(data, inv_cols, class_cols,
                                                     origen_sel, ConOrigen,
                                                     umbral_bajos_ab))

\* C15: the origin holds stock of an A article, the call with a list that
\* holds the origin gives rows, and the user has changed both widgets
C15_Witness ==
    /\ error = "" /\ origen_sel \notin {Todos, default_origin}
    /\ Len(destinos_sel) = 1
    /\ \E i \in 1..Len(data) :
          EsAB(data[i].cls[origen_sel]) /\ data[i].inv[origen_sel] > 0
    /\ build_suggestions(data, inv_cols, class_cols, origen_sel, ConOrigen,
                         umbral_bajos_ab) # <<>>

\* C16: every row of the reverse table comes from a record of the base
\* listing of the same origin, with the same Clave, origin existencia and
\* origin classification; where the base listing is empty, and the screen
\* shows the warning in place of the reverse table, there is no reverse row
C16_ReverseFromBase ==
    SugCalculado =>
        /\ \A j \in 1..Len(tab_inversos.df_inv) :
              \E k \in 1..Len(tab_inversos.df_base_cs) :
                  LET r == tab_inversos.df_inv[j]
                      b == tab_inversos.df_base_cs[k]
                  IN  /\ b.Codigo = r.Codigo
                      /\ b.Clave = r.Clave
                      /\ b.Existencia_origen = r.ExistenciaOrigen
                      /\ b.Clasif_origen = r.ClasifOrigen
        /\ tab_inversos.msg = "warning_base_vacia" =>
              build_reverse_suggestions(data, inv_cols, class_cols, origen_sel,
                                        destinos_sel, umbral_bajos_ab) = <<>>

\* C16: each record of the base listing has a reverse row for each of two
\* destinations
C16_Witness ==
    /\ SugCalculado
    /\ tab_inversos.msg = "tabla"
    /\ Len(tab_inversos.df_base_cs) > 1
    /\ Len(tab_inversos.df_inv) = 2 * Len(tab_inversos.df_base_cs)

\* the bucket in which compute_kpis counts row i for warehouse w
Cubeta(i, w) ==
    IF Categoria(data[i].cls[w]) = "SinMov" /\ ~(data[i].inv[w] > 0) THEN "ninguna"
    ELSE Categoria(data[i].cls[w])

\* no Clave has rows that warehouse w counts in two different buckets
ClavesEnUnaCubeta(w) ==
    \A i, j \in 1..Len(data) :
        (data[i].Clave = data[j].Clave
            /\ Cubeta(i, w) # "ninguna" /\ Cubeta(j, w) # "ninguna")
        => Cubeta(i, w) = Cubeta(j, w)

\* C17 as stated: for every table given to compute_kpis, one in which a
\* Clave occurs in several rows included, skus_activos <= skus_totales and
\* bajos_ab <= A + B
C17_ActivosLeTotalesSiempre ==
    (KpisShown /\ origen_sel # Todos) =>
        /\ kpis_to_show.skus_activos <= kpis_to_show.skus_totales
        /\ kpis_to_show.bajos_ab <= kpis_to_show.A + kpis_to_show.B

\* C17, amended: for every table bajos_ab <= A + B; for a table in which
\* no Clave has rows in two different buckets each Clave is counted in at
\* most one bucket and skus_activos <= skus_totales
C17_ActivosLeTotales ==
    (KpisShown /\ origen_sel # Todos) =>
        /\ kpis_to_show.bajos_ab <= kpis_to_show.A + kpis_to_show.B
        /\ ClavesEnUnaCubeta(origen_sel) =>
              /\ kpis_to_show.skus_activos <= kpis_to_show.skus_totales
              /\ kpis_to_show.skus_activos
                    = Cardinality({data[i].Clave :
                          i \in {j \in 1..Len(data) : Cubeta(j, origen_sel) # "ninguna"}})

\* C17: one Clave in two rows of the same bucket is counted once
C17_Witness ==
    /\ KpisShown /\ origen_sel # Todos
    /\ Len(data) = 2 /\ data[1].Clave = data[2].Clave
    /\ Cubeta(1, origen_sel) = "SinMov" /\ Cubeta(2, origen_sel) = "SinMov"
    /\ kpis_to_show.skus_activos = 1
    /\ kpis_to_show.skus_totales = 1

=============================================================================
